---- MODULE Spec2Model ----
(***************************************************************************)
(* Model of mincore-rs: src/src/lib.rs, fn mincore_wrapper.                *)
(*                                                                         *)
(* One call of mincore_wrapper is followed statement by statement (pc).    *)
(* Every OS call the function makes is one action; its result is drawn     *)
(* from the outcomes the call can produce.  Another process may change the *)
(* size of the file while the call is in progress (Truncate).              *)
(* `calls` is the trace of the OS interactions of the call; each entry     *)
(* records the operation, the length argument passed, the outcome and the  *)
(* size the file really had at that instant.                               *)
(***************************************************************************)
EXTENDS Integers, Sequences, FiniteSets

\* ---------------------------------------------------------------- bounds
\* largest file size (bytes) the environment produces
MaxFileSize == 9
\* page size reported by the OS (rustix::param::page_size)
PageSize == 4
\* width of usize in bits (arithmetic of vec_len wraps at 2^UsizeBits)
UsizeBits == 6
\* largest status byte value the kernel writes (bit 0 = resident, higher bits reserved)
MaxStatusByte == 3
\* how many times another process changes the file size during the call
MaxTruncates == 1

VARIABLES pc, file_type, cur_size, truncs, st_mode, st_size, file_size, vec_len,
          vec_out, file_mmap, errno, calls, result

vars == <<pc, file_type, cur_size, truncs, st_mode, st_size, file_size, vec_len,
          vec_out, file_mmap, errno, calls, result>>

\* ---------------------------------------------------------------- helpers
UsizeMod == 2 ^ UsizeBits

\* content of a byte of reserved, not yet written capacity
Uninit == -1

FileTypes == {"RegularFile", "Directory", "CharacterDevice"}

FstatErrnos == {"EBADF"}
MmapErrnos == {"EACCES", "ENOMEM"}
MincoreErrnos == {"EAGAIN", "ENOMEM"}
MunmapErrnos == {"EINVAL"}

Ok(v) == [kind |-> "ok", val |-> v, err |-> "0"]
Err(e) == [kind |-> "err", val |-> <<>>, err |-> e]
NoResult == [kind |-> "none", val |-> <<>>, err |-> "0"]

Call(op, len, ok, err) == [op |-> op, len |-> len, ok |-> ok, err |-> err, fsz |-> cur_size]

\* FileType::from_raw_mode(st_mode) != FileType::RegularFile, negated
IsRegularFile_dirOnly(mode) == mode # "Directory"
IsRegularFile(mode) == mode = "RegularFile"

\* (file_size+page_size-1)/page_size in usize arithmetic
VecLen_offByOne(fsize, psize) == (fsize \div psize) + 1
VecLen(fsize, psize) == ((fsize + psize - 1) % UsizeMod) \div psize

\* Vec::with_capacity(vec_len): capacity reserved, length 0, content uninitialized
InitialLen_full(n) == n
InitialLen(n) == 0

WithCapacity(n) == [cap |-> n, len |-> InitialLen(n), buf |-> [i \in 1..n |-> Uninit]]

\* the length argument handed to mmap
MmapLen_atLeastPage(fsize) == IF fsize = 0 THEN PageSize ELSE fsize
MmapLen(fsize) == fsize

\* the length argument handed to mincore
MincoreLen_pageRounded(fsize) == VecLen(fsize, PageSize) * PageSize
MincoreLen(fsize) == fsize

\* the errors mmap can report for a request: a zero length is always rejected
\* with EINVAL, a target that is not a regular file with EACCES
MmapFailures(len, type) ==
    IF len = 0 THEN {"EINVAL"}
    ELSE IF type # "RegularFile" THEN {"EACCES"}
    ELSE MmapErrnos

MmapCanSucceed(len, type) == len > 0 /\ type = "RegularFile"

\* number of status bytes the kernel writes for a query of `len` bytes
KernelPages(len) == (len + PageSize - 1) \div PageSize

Min(a, b) == IF a < b THEN a ELSE b

\* buffer after the kernel wrote the status bytes s[1..n] at its start
Fill(buf, s, n) == [i \in DOMAIN buf |-> IF i <= n THEN s[i] ELSE buf[i]]

\* |x| x != 0
ByteToBool(x) == x # 0

\* ---------------------------------------------------------------- initial state
Init ==
    /\ pc = "fstat"
    /\ file_type \in FileTypes
    /\ cur_size \in 0..MaxFileSize
    /\ truncs = 0
    /\ st_mode = "unset"
    /\ st_size = 0
    /\ file_size = 0
    /\ vec_len = 0
    /\ vec_out = [cap |-> 0, len |-> 0, buf |-> <<>>]
    /\ file_mmap = "none"
    /\ errno \in {"0", "ENOENT"}
    /\ calls = <<>>
    /\ result = NoResult

\* ---------------------------------------------------------------- actions
\* another process changes the size of the file while the call runs
Truncate ==
    /\ pc # "done"
    /\ truncs < MaxTruncates
    /\ \E n \in 0..MaxFileSize :
          /\ n # cur_size
          /\ cur_size' = n
    /\ truncs' = truncs + 1
    /\ UNCHANGED <<pc, file_type, st_mode, st_size, file_size, vec_len, vec_out,
                   file_mmap, errno, calls, result>>

\* let file_stat = fstat(fd)?;
Fstat ==
    /\ pc = "fstat"
    /\ \/ \E e \in FstatErrnos :
            /\ calls' = Append(calls, Call("fstat", 0, FALSE, e))
            /\ result' = Err(e)
            /\ pc' = "done"
            /\ UNCHANGED <<st_mode, st_size>>
       \/ /\ calls' = Append(calls, Call("fstat", 0, TRUE, "0"))
          /\ st_mode' = file_type
          /\ st_size' = cur_size
          /\ pc' = "check_type"
          /\ UNCHANGED result
    /\ UNCHANGED <<file_type, cur_size, truncs, file_size, vec_len, vec_out,
                   file_mmap, errno>>

\* if FileType::from_raw_mode(..) != FileType::RegularFile { return Err(Errno::ACCESS); }
CheckType ==
    /\ pc = "check_type"
    /\ IF IsRegularFile(st_mode)
       THEN pc' = "compute" /\ UNCHANGED result
       ELSE pc' = "done" /\ result' = Err("EACCES")
    /\ UNCHANGED <<file_type, cur_size, truncs, st_mode, st_size, file_size, vec_len,
                   vec_out, file_mmap, errno, calls>>

\* file_size, page_size, vec_len, vec_out
ComputeLen ==
    /\ pc = "compute"
    /\ file_size' = st_size
    /\ vec_len' = VecLen(st_size, PageSize)
    /\ vec_out' = WithCapacity(VecLen(st_size, PageSize))
    /\ pc' = "mmap"
    /\ UNCHANGED <<file_type, cur_size, truncs, st_mode, st_size, file_mmap, errno,
                   calls, result>>

\* let file_mmap = mmap(null, file_size, empty, SHARED, fd, 0)?;
Mmap ==
    /\ pc = "mmap"
    /\ \/ \E e \in MmapFailures(MmapLen(file_size), file_type) :
            /\ calls' = Append(calls, Call("mmap", MmapLen(file_size), FALSE, e))
            /\ result' = Err(e)
            /\ pc' = "done"
            /\ UNCHANGED file_mmap
       \/ /\ MmapCanSucceed(MmapLen(file_size), file_type)
          /\ calls' = Append(calls, Call("mmap", MmapLen(file_size), TRUE, "0"))
          /\ file_mmap' = "live"
          /\ pc' = "mincore"
          /\ UNCHANGED result
    /\ UNCHANGED <<file_type, cur_size, truncs, st_mode, st_size, file_size, vec_len,
                   vec_out, errno>>

\* if mincore(file_mmap, file_size, vec_out.as_mut_ptr()) != 0 { ... }
Mincore ==
    /\ pc = "mincore"
    /\ LET len == MincoreLen(file_size)
           n == Min(KernelPages(len), vec_out.cap)
       IN \/ \E e \in MincoreErrnos, k \in 0..n : \E s \in [1..k -> 0..MaxStatusByte] :
               /\ calls' = Append(calls, Call("mincore", len, FALSE, e))
               /\ errno' = e
               /\ vec_out' = [vec_out EXCEPT !.buf = Fill(vec_out.buf, s, k)]
               /\ pc' = "last_os_error"
          \/ \E s \in [1..n -> 0..MaxStatusByte] :
               /\ calls' = Append(calls, Call("mincore", len, TRUE, "0"))
               /\ vec_out' = [vec_out EXCEPT !.buf = Fill(vec_out.buf, s, n)]
               /\ pc' = "munmap"
               /\ UNCHANGED errno
    /\ UNCHANGED <<file_type, cur_size, truncs, st_mode, st_size, file_size, vec_len,
                   file_mmap, result>>

\* a variant that releases the mapping before it reads errno
LastOsError_afterMunmap ==
    /\ pc = "last_os_error"
    /\ \E e \in MunmapErrnos \cup {"0"} :
          /\ errno' = IF e = "0" THEN errno ELSE e
          /\ file_mmap' = IF e = "0" THEN "released" ELSE file_mmap
          /\ calls' = calls \o <<Call("munmap", file_size, e = "0", e),
                                 Call("last_os_error", 0, TRUE, errno')>>
          /\ result' = Err(errno')
    /\ pc' = "done"
    /\ UNCHANGED <<file_type, cur_size, truncs, st_mode, st_size, file_size, vec_len,
                   vec_out>>

\* return Err(Errno::from_io_error(&Error::last_os_error()).unwrap());
LastOsError ==
    /\ pc = "last_os_error"
    /\ calls' = Append(calls, Call("last_os_error", 0, TRUE, errno))
    /\ result' = Err(errno)
    /\ pc' = "done"
    /\ UNCHANGED <<file_type, cur_size, truncs, st_mode, st_size, file_size, vec_len,
                   vec_out, file_mmap, errno>>

\* a variant that drops the result of munmap
Munmap_ignoreErr ==
    /\ pc = "munmap"
    /\ \E e \in MunmapErrnos \cup {"0"} :
          /\ calls' = Append(calls, Call("munmap", file_size, e = "0", e))
          /\ file_mmap' = IF e = "0" THEN "released" ELSE file_mmap
    /\ pc' = "set_len"
    /\ UNCHANGED <<file_type, cur_size, truncs, st_mode, st_size, file_size, vec_len,
                   vec_out, errno, result>>

\* munmap(file_mmap, file_size)?;
Munmap ==
    /\ pc = "munmap"
    /\ \/ \E e \in MunmapErrnos :
            /\ calls' = Append(calls, Call("munmap", file_size, FALSE, e))
            /\ result' = Err(e)
            /\ pc' = "done"
            /\ UNCHANGED file_mmap
       \/ /\ calls' = Append(calls, Call("munmap", file_size, TRUE, "0"))
          /\ file_mmap' = "released"
          /\ pc' = "set_len"
          /\ UNCHANGED result
    /\ UNCHANGED <<file_type, cur_size, truncs, st_mode, st_size, file_size, vec_len,
                   vec_out, errno>>

\* vec_out.set_len(vec_len);
SetLen ==
    /\ pc = "set_len"
    /\ vec_out' = [vec_out EXCEPT !.len = vec_len]
    /\ pc' = "collect"
    /\ UNCHANGED <<file_type, cur_size, truncs, st_mode, st_size, file_size, vec_len,
                   file_mmap, errno, calls, result>>

\* Ok(vec_out.into_iter().map(|x| x!=0).collect())
\* (an element read from unwritten capacity may come out either way)
Collect ==
    /\ pc = "collect"
    /\ \E v \in [1..vec_out.len -> BOOLEAN] :
          /\ \A i \in 1..vec_out.len :
                (i <= vec_out.cap /\ vec_out.buf[i] # Uninit)
                    => v[i] = ByteToBool(vec_out.buf[i])
          /\ result' = Ok(v)
    /\ pc' = "done"
    /\ UNCHANGED <<file_type, cur_size, truncs, st_mode, st_size, file_size, vec_len,
                   vec_out, file_mmap, errno, calls>>

Next ==
    \/ Truncate
    \/ Fstat
    \/ CheckType
    \/ ComputeLen
    \/ Mmap
    \/ Mincore
    \/ LastOsError
    \/ Munmap
    \/ SetLen
    \/ Collect

Spec == Init /\ [][Next]_vars

\* ---------------------------------------------------------------- properties
Done == pc = "done"

\* the entries of `calls` for operation `op`
CallsOf(op) == {i \in 1..Len(calls) : calls[i].op = op}
Succeeded(op) == \E i \in CallsOf(op) : calls[i].ok
Failed(op) == \E i \in CallsOf(op) : ~calls[i].ok

\* ceil(S / P), defined without the code's formula
CeilDiv(S, P) == CHOOSE n \in 0..S : n * P >= S /\ (n = 0 \/ (n - 1) * P < S)

\* C1: a call that returns Ok for a file whose size was read as S returns exactly
\* ceil(S / P) elements; when S is a multiple of P that is S / P, no extra element.
C1_LengthIsCeil ==
    result.kind = "ok" =>
        /\ Len(result.val) = CeilDiv(st_size, PageSize)
        /\ (st_size % PageSize = 0 => Len(result.val) * PageSize = st_size)

C1_Witness ==
    /\ result.kind = "ok"
    /\ st_size > 0
    /\ st_size % PageSize = 0
    /\ Len(result.val) = st_size \div PageSize

C1_WitnessPartialPage ==
    /\ result.kind = "ok"
    /\ st_size % PageSize # 0
    /\ Len(result.val) = (st_size \div PageSize) + 1

\* a regular file whose size was read as 0, the call finished
ZeroLengthCallDone == Done /\ Succeeded("fstat") /\ st_mode = "RegularFile" /\ st_size = 0

\* C2 (as stated): for a regular file of size 0 the call succeeds with an empty vector.
C2_ZeroLengthSucceeds ==
    ZeroLengthCallDone => (result.kind = "ok" /\ result.val = <<>>)

\* C2 (amended): for a regular file of size 0 the mapping is requested with length 0,
\* that request is rejected with EINVAL, and the call returns that error; no mapping
\* exists, no query is made and no vector is returned.
C2_ZeroLengthIsMmapError ==
    ZeroLengthCallDone =>
        /\ result = Err("EINVAL")
        /\ Len(calls) = 2
        /\ calls[2].op = "mmap" /\ calls[2].len = 0 /\ ~calls[2].ok
        /\ file_mmap = "none"

C2_Witness ==
    /\ ZeroLengthCallDone
    /\ Failed("mmap")
    /\ result = Err("EINVAL")

\* C3: a target that is not a regular file gets EACCES right after the metadata query:
\* no mapping, no residency query, no release; a failed metadata query returns its
\* error before any mapping is created.
C3_NonRegularRejected ==
    /\ (file_type # "RegularFile" \/ Failed("fstat")) =>
          /\ file_mmap = "none"
          /\ CallsOf("mmap") = {} /\ CallsOf("mincore") = {} /\ CallsOf("munmap") = {}
    /\ (Done /\ file_type # "RegularFile" /\ Succeeded("fstat")) => result = Err("EACCES")
    /\ (Done /\ Failed("fstat")) => (Len(calls) = 1 /\ result = Err(calls[1].err))

C3_Witness ==
    /\ Done
    /\ file_type = "CharacterDevice"
    /\ Succeeded("fstat")
    /\ result = Err("EACCES")

C3_WitnessFstatFails == Done /\ Failed("fstat") /\ result.kind = "err"

\* C4 (as stated): whenever the mapping was created, munmap has been attempted on it
\* by the time the call returns, also when the residency query failed.
C4_MappingReleasedBeforeReturn ==
    (Done /\ Succeeded("mmap")) => CallsOf("munmap") # {}

\* C5: when the residency query fails the returned error is the errno that query set,
\* errno is read directly after the query (nothing in between, in particular no
\* release), and no later release error replaces it.
C5_QueryErrorPreserved ==
    \A i \in CallsOf("mincore") :
        (Done /\ ~calls[i].ok) =>
            /\ result = Err(calls[i].err)
            /\ Len(calls) > i
            /\ calls[i + 1].op = "last_os_error"
            /\ calls[i + 1].err = calls[i].err

C5_Witness ==
    /\ Done
    /\ Failed("mincore")
    /\ result = Err("EAGAIN")
    /\ calls[Len(calls)].op = "last_os_error"

\* C6: query succeeded and release failed: the release error is returned, not a
\* vector; a vector is returned only if fstat, mmap, mincore and munmap all succeeded.
C6_ReleaseErrorReturned ==
    /\ (Done /\ Succeeded("mincore") /\ Failed("munmap")) =>
          \E j \in CallsOf("munmap") : result = Err(calls[j].err)
    /\ result.kind = "ok" =>
          /\ Succeeded("fstat") /\ Succeeded("mmap")
          /\ Succeeded("mincore") /\ Succeeded("munmap")
          /\ ~Failed("fstat") /\ ~Failed("mmap")
          /\ ~Failed("mincore") /\ ~Failed("munmap")

C6_Witness ==
    /\ Done
    /\ Succeeded("mincore")
    /\ Failed("munmap")
    /\ result = Err("EINVAL")

\* rank of an OS step in the prescribed order
StepRank(op) ==
    CASE op = "fstat" -> 1
      [] op = "mmap" -> 2
      [] op = "mincore" -> 3
      [] op = "last_os_error" -> 3
      [] op = "munmap" -> 4

\* C7 (as stated): each OS step happens at most once, in the order fstat, mmap,
\* mincore, munmap; munmap is attempted exactly once per created mapping, never
\* without one, never before the query; nothing is retried.
C7_StepsOnceInOrder ==
    /\ \A op \in {"fstat", "mmap", "mincore", "munmap"} : Cardinality(CallsOf(op)) <= 1
    /\ \A i, j \in 1..Len(calls) : i < j => StepRank(calls[i].op) <= StepRank(calls[j].op)
    /\ CallsOf("munmap") # {} => (Succeeded("mmap") /\ CallsOf("mincore") # {})
    /\ (Done /\ Succeeded("mmap")) => Cardinality(CallsOf("munmap")) = 1

\* C8 (as stated): element i is true exactly when the low bit of status byte i is
\* set; higher bits are ignored.
C8_LowBitDecides ==
    result.kind = "ok" =>
        \A i \in 1..Len(result.val) : result.val[i] = (vec_out.buf[i] % 2 = 1)

\* C9: the buffer starts with capacity vec_len and length 0; its length becomes
\* vec_len only after the query succeeded; every element inside the length, and every
\* element handed to a caller, was written by the query; an error carries no vector.
C9_NoUnpopulatedElement ==
    /\ (pc = "mmap" \/ CallsOf("mmap") # {}) => vec_out.cap = vec_len
    /\ pc = "mmap" => vec_out.len = 0
    /\ vec_out.len \in {0, vec_len}
    /\ (vec_out.len > 0 \/ pc = "collect") =>
          (Succeeded("mincore") /\ vec_out.len = vec_len)
    /\ \A i \in 1..vec_out.len : i <= vec_out.cap /\ vec_out.buf[i] # Uninit
    /\ result.kind = "ok" =>
          /\ Len(result.val) = vec_out.len
          /\ Succeeded("mincore")
    /\ result.kind = "err" => result.val = <<>>

C9_Witness ==
    /\ Done
    /\ result.kind = "ok"
    /\ vec_out.len = 2
    /\ \A i \in 1..2 : vec_out.buf[i] # Uninit

C9_WitnessPartialFill ==
    /\ Done
    /\ result.kind = "err"
    /\ Failed("mincore")
    /\ vec_out.len = 0
    /\ vec_out.cap = 2
    /\ vec_out.buf[1] # Uninit
    /\ vec_out.buf[2] = Uninit

\* the file was smaller than the size snapshot at the moment mmap was called
ShrunkBeforeMmap == \E i \in CallsOf("mmap") : calls[i].fsz < st_size

\* C10 (as stated): a file shrunk between the size query and the mapping creation
\* makes the call end in a mapping-creation failure, never in a vector (calls that
\* end in an unrelated failure of the query or the release are left aside).
C10_ShrinkEndsInMmapFailure ==
    (Done /\ ShrunkBeforeMmap /\ ~Failed("mincore") /\ ~Failed("munmap")) =>
        (Failed("mmap") /\ result.kind = "err")

\* C10 (amended): the size is read once; the mapping length, the query length, the
\* release length and the vector length all come from that snapshot, also when the
\* file was shrunk in between: the call does not notice the shrink, and a vector it
\* returns then has ceil(snapshot / P) elements.
C10_LengthsFromOneSnapshot ==
    /\ Cardinality(CallsOf("fstat")) <= 1
    /\ \A i \in CallsOf("mmap") \cup CallsOf("mincore") \cup CallsOf("munmap") :
          calls[i].len = st_size
    /\ pc \in {"mmap", "mincore", "munmap", "set_len", "collect", "last_os_error"} =>
          (file_size = st_size /\ vec_out.cap = CeilDiv(st_size, PageSize))
    /\ result.kind = "ok" => Len(result.val) = CeilDiv(calls[1].fsz, PageSize)

C10_Witness ==
    /\ Done
    /\ ShrunkBeforeMmap
    /\ result.kind = "ok"
    /\ Succeeded("mmap")
    /\ \E i \in CallsOf("mmap") : CeilDiv(calls[i].fsz, PageSize) < Len(result.val)

====
